---- MODULE Spec2Model ----
(***************************************************************************)
(* RSVP webhooks of the event backend (Events/views/webhooks.py):          *)
(* track_send records a WaSendMap row for an outbound send, whatsapp_rsvp  *)
(* resolves an inbound reply to an EventRegistration, updates it,          *)
(* publishes a live notification and marks the mapping consumed.           *)
(* SendLocalTemplateView.post (MessageTemplates/whatsapp_views/            *)
(* send_template.py) sends a rendered template as free-form text inside    *)
(* the 24-hour window, and queues it and sends an opener outside.          *)
(*                                                                         *)
(* Strings the code normalises (header token, wa_id, rsvp_status) are      *)
(* sequences of one-character strings so that strip(), lower() and         *)
(* _norm_digits() are computed.  Time is counted in hours.                 *)
(***************************************************************************)
EXTENDS Integers, Sequences, FiniteSets, TLC

\* ------------------------------------------------------------------ bounds
\* Requests handled in one behaviour.
MaxReqs == 2
\* The clock stops advancing here (hours).
MaxNow == 720
\* The same for the behaviours of the send-template endpoint.
MaxSendNow == 47
\* How often a failing send-template request is repeated.
MaxRepeat == 3

\* --------------------------------------------------------------- constants
\* timedelta(days=30) of track_send, in days.
TTLDays == 30
\* The same in hours.
TTL == TTLDays * 24
\* d[-15:] of _norm_digits.
KeepDigits == 15

\* None of a string-valued field, and of a datetime field.
Null == "null"
NoTime == -1

\* ------------------------------------------------------ string conversions
Digits == {"0", "1", "2", "3", "4", "5", "6", "7", "8", "9"}
Whitespace == {" "}

\* "".join(ch for ch in (s or "") if ch.isdigit())[-15:]
IsDigit(ch) == ch \in Digits
norm_digits(s) ==
  LET d == SelectSeq(s, IsDigit)
  IN  IF Len(d) > KeepDigits THEN SubSeq(d, Len(d) - KeepDigits + 1, Len(d)) ELSE d

\* str.strip(): drop leading and trailing whitespace.
RECURSIVE lstrip(_)
lstrip(s) == IF s # <<>> /\ Head(s) \in Whitespace THEN lstrip(Tail(s)) ELSE s
RECURSIVE rstrip(_)
rstrip(s) ==
  IF s # <<>> /\ s[Len(s)] \in Whitespace THEN rstrip(SubSeq(s, 1, Len(s) - 1)) ELSE s
strip(s) == rstrip(lstrip(s))

\* str.lower() over the letters the requests use.
LowerOf(ch) ==
  CASE ch = "Y" -> "y" [] ch = "E" -> "e" [] ch = "S" -> "s"
    [] ch = "N" -> "n" [] ch = "O" -> "o" [] ch = "M" -> "m"
    [] ch = "A" -> "a" [] ch = "B" -> "b" [] OTHER -> ch
lower(s) == [k \in 1..Len(s) |-> LowerOf(s[k])]

\* x or None
OrNone(x) == IF x = "" THEN Null ELSE x

\* --------------------------------------------------------- database content
\* EventRegistration rows present in the database (created outside these
\* views, never deleted by them): id -> event, in creation order.
Events == {"E1", "E2"}
RegIds == {"R1", "R2", "R3"}
RegEvent == [r \in RegIds |-> IF r = "R3" THEN "E2" ELSE "E1"]
RegCreatedAt == [r \in RegIds |-> CASE r = "R1" -> 1 [] r = "R2" -> 2 [] r = "R3" -> 3]

\* The status check with one value too many.
ValidRsvp_Wide ==
  {<<"y", "e", "s">>, <<"n", "o">>, <<"m", "a", "y", "b", "e">>, <<"n", "o", "p", "e">>}

\* {"yes", "no", "maybe"} of whatsapp_rsvp.
ValidRsvp == {<<"y", "e", "s">>, <<"n", "o">>, <<"m", "a", "y", "b", "e">>}
Unset == <<>>

\* ------------------------------------------------------------------ inputs
\* X-Webhook-Token header values: missing, the secret, a wrong one.
Tokens == {<<>>, <<"s">>, <<"x">>}
\* DJANGO_RSVP_SECRET values: unset, and the secret with a trailing blank.
Secrets == {<<>>, <<"s", " ">>}
\* wa_id values: a formatted number, and a 16-digit number, which
\* _norm_digits cuts to its last 15 digits; "" when the key is missing.
Wa1 == <<"+", "1", " ", "5">>
Wa2 == <<"9", "1", "2", "3", "4", "5", "6", "7", "8", "9", "0", "1", "2", "3", "4", "5">>
NoWa == <<>>
WamidInputs == {Null, "W1", "W2"}
EventIdInputs == Events \cup {Null}
\* rsvp_status values.
Yes == <<" ", "Y", "e", "s">>
No == <<"n", "o">>
Nope == <<"n", "o", "p", "e">>
\* responded_on: absent, or an ISO timestamp (the hour it denotes).
RespondedOnInputs == {NoTime, 7}
\* Steps of the clock: one hour short of the mapping TTL, and the TTL.
TickSteps == {TTL - 1, TTL}

TReq(tok, wa, ev, reg, wm) ==
  [token |-> tok, wa_id |-> wa, event_id |-> ev, event_registration_id |-> reg,
   template_wamid |-> wm]

\* track_send requests (bodies are well-formed JSON): for the first guest
\* every accepted combination of event, registration and correlator, for the
\* second guest a send with and one without correlator, and requests for each
\* early return ("E9" is an event without registrations, "R9" an unknown id).
TrackRequests ==
  { TReq(<<"s">>, Wa1, p[1], p[2], wm) :
      p \in {<<"E1", Null>>, <<"E1", "R1">>, <<"E2", "R1">>, <<"E2", "R3">>},
      wm \in WamidInputs }
  \cup { TReq(<<"s">>, Wa2, "E1", "R1", wm) : wm \in {Null, "W1"} }
  \cup { TReq(tok, Wa1, "E1", "R1", wm) : tok \in {<<>>, <<"x">>}, wm \in {Null, "W1"} }
  \cup { TReq(<<"s">>, NoWa, "E1", "R1", Null),
         TReq(<<"s">>, Wa1, Null, "R1", "W1"),
         TReq(<<"s">>, Wa1, "E1", "R9", Null),
         TReq(<<"s">>, Wa2, "E2", "R9", "W2"),
         TReq(<<"s">>, Wa1, "E9", Null, Null) }

RReq(tok, st, ro, reg, wa, wm, ev) ==
  [token |-> tok, rsvp_status |-> st, responded_on |-> ro,
   event_registration_id |-> reg, wa_id |-> wa, template_wamid |-> wm,
   event_id |-> ev]

\* The identifying fields of the requests that name a registration.
ExplicitIdent == { <<NoWa, Null, Null>>, <<Wa1, Null, "E1">>, <<Wa1, "W1", Null>> }

\* whatsapp_rsvp requests.  Without a registration id: for the first guest
\* every combination of correlator and event, for the second guest two.
\* With a registration id: two replies, each with every ExplicitIdent.
\* And requests for each early return.
RsvpRequests ==
  { RReq(<<"s">>, Yes, NoTime, Null, Wa1, wm, ev) :
      wm \in WamidInputs, ev \in EventIdInputs }
  \cup { RReq(<<"s">>, Yes, NoTime, Null, Wa2, Null, Null),
         RReq(<<"s">>, Yes, NoTime, Null, Wa2, "W1", "E1") }
  \cup { RReq(<<"s">>, p[1], p[2], p[3], f[1], f[2], f[3]) :
           p \in {<<Yes, NoTime, "R1">>, <<No, 7, "R3">>},
           f \in ExplicitIdent }
  \cup { RReq(tok, Yes, NoTime, reg, Wa1, Null, "E1") :
           tok \in {<<>>, <<"x">>}, reg \in {Null, "R1"} }
  \cup { RReq(<<"s">>, st, NoTime, reg, f[1], f[2], f[3]) :
           st \in {Nope, NoWa}, reg \in {Null, "R1"}, f \in ExplicitIdent }
  \cup { RReq(<<"s">>, Yes, NoTime, "R9", f[1], f[2], f[3]) : f \in ExplicitIdent }
  \cup { RReq(<<"s">>, Yes, NoTime, Null, NoWa, wm, ev) :
           wm \in {Null, "W1"}, ev \in {Null, "E1"} }

\* What the collaborators of whatsapp_rsvp do in one request: whether
\* group_send raises, and whether the consumed_at update raises.
Envs ==
  { [publish_fails |-> FALSE, consume_fails |-> FALSE],
    [publish_fails |-> TRUE, consume_fails |-> FALSE],
    [publish_fails |-> FALSE, consume_fails |-> TRUE] }
OkEnv == [publish_fails |-> FALSE, consume_fails |-> FALSE]

\* ------------------------------------------------------------------- state
VARIABLES
  secret,    \* os.getenv("DJANGO_RSVP_SECRET", "")
  now,       \* dj_tz.now()
  regs,      \* EventRegistration: id -> [rsvp_status, responded_on]
  maps,      \* WaSendMap table: sequence of rows in creation order
  channel,   \* messages sent with channel_layer.group_send
  resp,      \* the response of the request handled last
  h,         \* what its handler did: resolution path and later steps
  nreq,      \* requests handled so far
  queue,     \* QueuedMessage table: sequence of rows in creation order
  outbox,    \* messages the WhatsApp client sent, in order
  sresp,     \* the response of the send-template request handled last
  pc,        \* concurrent requests: the step each request is at
  loc,       \* concurrent requests: what each request has read so far
  uniq       \* whether the database enforces the upsert key of WaSendMap

sendVars == <<queue, outbox, sresp>>
raceVars == <<pc, loc, uniq>>
vars ==
  <<secret, now, regs, maps, channel, resp, h, nreq, queue, outbox, sresp,
    pc, loc, uniq>>

\* The two requests that run concurrently.
Procs == {"p1", "p2"}
NoLoc ==
  [kind |-> "", rq |-> Null, status |-> 0, wa_id |-> <<>>, er |-> Null,
   template_wamid |-> Null, hit |-> {}, pair |-> Null, step |-> 0]

NoResp ==
  [status |-> 0, reason |-> "", id |-> Null, map_id |-> 0,
   rsvp_status |-> Unset, responded_on |-> NoTime]
NoH ==
  [op |-> "none", wa_id |-> <<>>, er |-> Null, prio |-> 0, via |-> 0,
   publish |-> "none", consume |-> "none"]

\* ----------------------------------------------------------------- helpers
Forbidden(msg) == [NoResp EXCEPT !.status = 403, !.reason = msg]
BadRequest(msg) == [NoResp EXCEPT !.status = 400, !.reason = msg]
ServerError(msg) == [NoResp EXCEPT !.status = 500, !.reason = msg]

\* The token check without the test for an empty secret.
TokenAccepted_NoEmptyCheck(hdrRaw, secretRaw) == strip(hdrRaw) = strip(secretRaw)

\* if not secret or hdr != secret: forbidden
TokenAccepted(hdrRaw, secretRaw) ==
  LET hdr == strip(hdrRaw)
      sec == strip(secretRaw)
  IN  ~(sec = <<>> \/ hdr # sec)

\* EventRegistration.objects.filter(event_id=e).order_by("-created_at").first()
LatestRegistration(e) ==
  LET S == {r \in RegIds : RegEvent[r] = e}
  IN  IF S = {} THEN Null
      ELSE CHOOSE r \in S : \A q \in S : RegCreatedAt[q] <= RegCreatedAt[r]

\* QuerySet.update_or_create(**lookup, defaults=defaults), hit being the rows
\* that match the lookup: one matching row is updated with the defaults, no
\* matching row creates one from lookup and defaults, several matching rows
\* raise MultipleObjectsReturned.
UpdateOrCreate(tbl, hit, created, defaults) ==
  IF Cardinality(hit) > 1
  THEN [ok |-> FALSE, tbl |-> tbl, id |-> 0]
  ELSE IF hit = {}
  THEN [ok |-> TRUE, tbl |-> Append(tbl, created), id |-> created.id]
  ELSE LET k == CHOOSE x \in hit : TRUE
       IN  [ok |-> TRUE,
            tbl |-> [tbl EXCEPT ![k] =
                       [f \in DOMAIN tbl[k] |->
                          IF f \in DOMAIN defaults THEN defaults[f] ELSE tbl[k][f]]],
            id |-> tbl[k].id]

\* Upsert with create() in place of update_or_create().
Upsert_AlwaysCreate(tbl, wa_id, er, template_wamid, t) ==
  [ok |-> TRUE,
   tbl |-> Append(tbl, [id |-> Len(tbl) + 1, created_at |-> Len(tbl) + 1,
                        wa_id |-> wa_id, event |-> RegEvent[er],
                        event_registration |-> er, template_wamid |-> template_wamid,
                        expires_at |-> t + TTL, consumed_at |-> NoTime]),
   id |-> Len(tbl) + 1]

\* The rows the lookup of update_or_create matches: by template_wamid when
\* the request has one, else by (wa_id, event).
UpsertHits(tbl, wa_id, er, template_wamid) ==
  IF template_wamid # Null
  THEN {k \in DOMAIN tbl : tbl[k].template_wamid = template_wamid}
  ELSE {k \in DOMAIN tbl : tbl[k].wa_id = wa_id /\ tbl[k].event = RegEvent[er]}

\* UpsertWrite whose update leaves the event of the row as it was.
UpsertWrite_KeepsEvent(tbl, hit, wa_id, er, template_wamid, t) ==
  LET defaults == [wa_id |-> wa_id, event_registration |-> er,
                   expires_at |-> t + TTL]
      created == [id |-> Len(tbl) + 1, created_at |-> Len(tbl) + 1,
                  wa_id |-> wa_id, event |-> RegEvent[er], event_registration |-> er,
                  template_wamid |-> template_wamid, expires_at |-> t + TTL,
                  consumed_at |-> NoTime]
  IN  UpdateOrCreate(tbl, hit, created, defaults)

\* The write of update_or_create given the rows its lookup matched.  A new
\* row gets the next id; created_at is the row's place in creation order.
UpsertWrite(tbl, hit, wa_id, er, template_wamid, t) ==
  LET defaults == [wa_id |-> wa_id, event |-> RegEvent[er],
                   event_registration |-> er, expires_at |-> t + TTL]
      created == [id |-> Len(tbl) + 1, created_at |-> Len(tbl) + 1,
                  wa_id |-> wa_id, event |-> RegEvent[er], event_registration |-> er,
                  template_wamid |-> template_wamid, expires_at |-> t + TTL,
                  consumed_at |-> NoTime]
  IN  UpdateOrCreate(tbl, hit, created, defaults)

\* The upsert of track_send for registration er, lookup and write together.
Upsert(tbl, wa_id, er, template_wamid, t) ==
  UpsertWrite(tbl, UpsertHits(tbl, wa_id, er, template_wamid), wa_id, er,
              template_wamid, t)

\* track_send(request): the response, the table it leaves, and its path.
TrackSendOutcome(rq, sec, tbl, t) ==
  LET wa_id == norm_digits(rq.wa_id)
      event_id == rq.event_id
      reg_id == rq.event_registration_id
      template_wamid == OrNone(rq.template_wamid)
      er == IF reg_id # Null THEN reg_id ELSE LatestRegistration(event_id)
      up == Upsert(tbl, wa_id, er, template_wamid, t)
      Fail(r) == [resp |-> r, maps |-> tbl, h |-> [NoH EXCEPT !.op = "track_send"]]
      ht == [NoH EXCEPT !.op = "track_send", !.wa_id = wa_id, !.er = er]
  IN  IF ~TokenAccepted(rq.token, sec)
        THEN Fail(Forbidden("invalid token"))
      ELSE IF wa_id = <<>> \/ event_id = Null
        THEN Fail(BadRequest("missing wa_id or event_id"))
      ELSE IF reg_id # Null /\ reg_id \notin RegIds
        THEN Fail(BadRequest("registration not found"))
      ELSE IF er = Null
        THEN Fail(BadRequest("could not resolve registration"))
      ELSE IF ~up.ok
        THEN [Fail(BadRequest("track_send error")) EXCEPT !.h = ht]
      ELSE [resp |-> [NoResp EXCEPT !.status = 200, !.reason = "ok", !.map_id = up.id],
            maps |-> up.tbl,
            h |-> [ht EXCEPT !.via = up.id]]

\* QuerySet.first() of a queryset without order_by: the row of lowest pk.
First(tbl, S) ==
  IF S = {} THEN 0 ELSE CHOOSE k \in S : \A j \in S : tbl[k].id <= tbl[j].id

\* QuerySet.order_by("-created_at").first()
Latest(tbl, S) ==
  IF S = {} THEN 0 ELSE CHOOSE k \in S : \A j \in S : tbl[j].created_at <= tbl[k].created_at

\* BaseQs that leaves out the rows already consumed.
BaseQs_UnconsumedOnly(tbl, wa_id, t) ==
  {k \in DOMAIN tbl :
     tbl[k].wa_id = wa_id /\ tbl[k].expires_at > t /\ tbl[k].consumed_at = NoTime}

\* BaseQs without the expires_at filter.
BaseQs_NoExpiry(tbl, wa_id, t) == {k \in DOMAIN tbl : tbl[k].wa_id = wa_id}

\* WaSendMap.objects.filter(wa_id=wa_id, expires_at__gt=now)
BaseQs(tbl, wa_id, t) ==
  {k \in DOMAIN tbl : tbl[k].wa_id = wa_id /\ tbl[k].expires_at > t}

\* Resolve without priority 1: the correlator is ignored.
Resolve_NoCorrelator(tbl, wa_id, template_wamid, event_id, t) ==
  LET base_qs == BaseQs(tbl, wa_id, t)
      p2 == IF event_id # Null
            THEN Latest(tbl, {k \in base_qs : tbl[k].event = event_id})
            ELSE 0
      via == IF p2 # 0 THEN p2 ELSE Latest(tbl, base_qs)
  IN  [via |-> via,
       prio |-> IF p2 # 0 THEN 2 ELSE IF via # 0 THEN 3 ELSE 0,
       er |-> IF via = 0 THEN Null ELSE tbl[via].event_registration]

\* Resolve without priority 2: the event of the request is ignored.
Resolve_NoEventScope(tbl, wa_id, template_wamid, event_id, t) ==
  LET base_qs == BaseQs(tbl, wa_id, t)
      p1 == IF template_wamid # Null
            THEN First(tbl, {k \in base_qs : tbl[k].template_wamid = template_wamid})
            ELSE 0
      via == IF p1 # 0 THEN p1 ELSE Latest(tbl, base_qs)
  IN  [via |-> via,
       prio |-> IF p1 # 0 THEN 1 ELSE IF via # 0 THEN 3 ELSE 0,
       er |-> IF via = 0 THEN Null ELSE tbl[via].event_registration]

\* The mapping-based resolution of whatsapp_rsvp: the row (0: none) each
\* priority yields, the row used and the registration it gives.
Resolve(tbl, wa_id, template_wamid, event_id, t) ==
  LET base_qs == BaseQs(tbl, wa_id, t)
      p1 == IF template_wamid # Null
            THEN First(tbl, {k \in base_qs : tbl[k].template_wamid = template_wamid})
            ELSE 0
      p2 == IF p1 = 0 /\ event_id # Null
            THEN Latest(tbl, {k \in base_qs : tbl[k].event = event_id})
            ELSE 0
      p3 == IF p1 = 0 /\ p2 = 0 THEN Latest(tbl, base_qs) ELSE 0
      via == IF p1 # 0 THEN p1 ELSE IF p2 # 0 THEN p2 ELSE p3
  IN  [via |-> via,
       prio |-> IF p1 # 0 THEN 1 ELSE IF p2 # 0 THEN 2 ELSE IF p3 # 0 THEN 3 ELSE 0,
       er |-> IF via = 0 THEN Null ELSE tbl[via].event_registration]

\* The rows the consumption step of whatsapp_rsvp selects.
ConsumedQs(tbl, er, wa_id, template_wamid, event_id) ==
  {k \in DOMAIN tbl :
     /\ tbl[k].event_registration = er
     /\ IF template_wamid # Null THEN tbl[k].template_wamid = template_wamid
        ELSE IF wa_id # <<>> /\ event_id # Null
          THEN tbl[k].wa_id = wa_id /\ tbl[k].event = event_id
        ELSE IF wa_id # <<>> THEN tbl[k].wa_id = wa_id
        ELSE TRUE}

\* qs.update(consumed_at=now)
MarkConsumed(tbl, S, t) ==
  [k \in DOMAIN tbl |-> IF k \in S THEN [tbl[k] EXCEPT !.consumed_at = t] ELSE tbl[k]]

\* Notification sent to a group named after the registration.
Notification_OwnGroup(er, rsvp) ==
  [group |-> "event_" \o er, type |-> "rsvp_update", action |-> "updated",
   id |-> er, event |-> RegEvent[er], rsvp_status |-> rsvp]

\* The message group_send publishes for registration er.
Notification(er, rsvp) ==
  [group |-> "event_" \o RegEvent[er], type |-> "rsvp_update", action |-> "updated",
   id |-> er, event |-> RegEvent[er], rsvp_status |-> rsvp]

\* ChooseRegistration that prefers a resolved mapping to the id given.
ChooseRegistration_MappingFirst(reg_id, res) ==
  IF res.er # Null THEN res.er ELSE reg_id

\* The registration whatsapp_rsvp updates: the one named by
\* event_registration_id when the request carries it, else the resolved one.
ChooseRegistration(reg_id, res) == IF reg_id # Null THEN reg_id ELSE res.er

\* FinalResponse when the exception of the consumption step is not caught.
FinalResponse_Propagate(er, rsvp, responded_on, consumeRaised) ==
  IF consumeRaised
  THEN ServerError("consumed_at update raised")
  ELSE [NoResp EXCEPT !.status = 200, !.reason = "ok", !.id = er,
                      !.rsvp_status = rsvp, !.responded_on = responded_on]

\* The response of whatsapp_rsvp once the registration is saved and the
\* notification sent; an exception of the consumption step is logged only.
FinalResponse(er, rsvp, responded_on, consumeRaised) ==
  [NoResp EXCEPT !.status = 200, !.reason = "ok", !.id = er,
                 !.rsvp_status = rsvp, !.responded_on = responded_on]

\* whatsapp_rsvp(request) in an environment env: the response, the tables and
\* the channel it leaves, and its path.  save() commits at once (autocommit),
\* so an exception of group_send leaves the registration updated.
RsvpOutcome(rq, env, sec, rg, tbl, ch, t) ==
  LET rsvp == lower(strip(rq.rsvp_status))
      responded_on == IF rq.responded_on # NoTime THEN rq.responded_on ELSE t
      reg_id == rq.event_registration_id
      wa_id == norm_digits(rq.wa_id)
      template_wamid == OrNone(rq.template_wamid)
      event_id == OrNone(rq.event_id)
      res == Resolve(tbl, wa_id, template_wamid, event_id, t)
      er == ChooseRegistration(reg_id, res)
      hr == [NoH EXCEPT !.op = "whatsapp_rsvp", !.wa_id = wa_id, !.er = er,
                        !.prio = IF reg_id # Null THEN 0 ELSE res.prio,
                        !.via = IF reg_id # Null THEN 0 ELSE res.via]
      Fail(r, w) == [resp |-> r, regs |-> rg, maps |-> tbl, channel |-> ch,
                     h |-> [NoH EXCEPT !.op = "whatsapp_rsvp", !.wa_id = w]]
      saved == [rg EXCEPT ![er] = [rsvp_status |-> rsvp, responded_on |-> responded_on]]
      sent == Append(ch, Notification(er, rsvp))
  IN  IF ~TokenAccepted(rq.token, sec)
        THEN Fail(Forbidden("invalid token"), <<>>)
      ELSE IF rsvp \notin ValidRsvp
        THEN Fail(BadRequest("invalid rsvp_status"), <<>>)
      ELSE IF reg_id # Null /\ reg_id \notin RegIds
        THEN Fail(BadRequest("registration not found"), <<>>)
      ELSE IF reg_id = Null /\ wa_id = <<>>
        THEN Fail(BadRequest("missing wa_id"), wa_id)
      ELSE IF er = Null
        THEN Fail(BadRequest("no mapping found for wa_id"), wa_id)
      ELSE IF env.publish_fails
        THEN [resp |-> ServerError("group_send raised"), regs |-> saved, maps |-> tbl,
              channel |-> ch, h |-> [hr EXCEPT !.publish = "raised"]]
      ELSE IF env.consume_fails
        THEN [resp |-> FinalResponse(er, rsvp, responded_on, TRUE),
              regs |-> saved, maps |-> tbl, channel |-> sent,
              h |-> [hr EXCEPT !.publish = "sent", !.consume = "raised"]]
      ELSE [resp |-> FinalResponse(er, rsvp, responded_on, FALSE),
            regs |-> saved,
            maps |-> MarkConsumed(tbl, ConsumedQs(tbl, er, wa_id, template_wamid, event_id), t),
            channel |-> sent,
            h |-> [hr EXCEPT !.publish = "sent", !.consume = "done"]]

\* ------------------------------------------------------------ send-template
\* The messaging window of within_24h_window, in hours.
WindowHours == 24

\* guest.phone of each registration's guest; the guest of R2 has none.
RegPhone ==
  [r \in RegIds |-> CASE r = "R1" -> norm_digits(Wa1)
                      [] r = "R2" -> <<>>
                      [] r = "R3" -> norm_digits(Wa2)]
\* MessageTemplate rows present in the database.
Templates == {"T1"}

\* send-template requests: path parameters event_id and registration_id,
\* body field template_id (Null: missing or no UUID, "T9": unknown).
SendRequests ==
  [event_id : Events, registration_id : {"R1", "R2", "R3", "R9"},
   template_id : {"T1", "T9", Null}]

\* What the collaborators of the view do in one request: whether
\* render_template_with_vars, send_freeform_text, QueuedMessage.objects.create
\* and send_resume_opener raise.
SendEnvs ==
  [render_fails : BOOLEAN, freeform_fails : BOOLEAN, queue_fails : BOOLEAN,
   opener_fails : BOOLEAN]

\* The webhooks that set responded_on in the behaviours of the endpoint.
WindowRsvps ==
  { RReq(<<"s">>, Yes, NoTime, reg, NoWa, Null, Null) : reg \in {"R1", "R3"} }
WindowTickSteps == {WindowHours - 1, WindowHours}

NoSendResp ==
  [status |-> 0, ok |-> FALSE, result |-> "", error |-> "", message_id |-> 0,
   opener_message_id |-> 0, reg |-> Null, in_window |-> FALSE, calls |-> <<>>,
   at |-> 0]

\* within_24h_window(last_inbound_at) at time t.
within_24h_window_Inclusive(last, t) == last # NoTime /\ t - last <= WindowHours
within_24h_window(last, t) == last # NoTime /\ t - last < WindowHours

\* render_template_with_vars(tmpl, ctx): the text of a template for a registration.
Rendered(tmpl, reg) == <<tmpl, reg>>

\* The id the provider gives the next message it sends.
NextMessageId(ob) == Len(ob) + 1

\* The window test with the boundary of 24 hours inside the window.
InWindow_Inclusive(rg, reg, t) == within_24h_window_Inclusive(rg[reg].responded_on, t)
\* The window test of the view, on responded_on of the registration.
InWindow(rg, reg, t) == within_24h_window(rg[reg].responded_on, t)

\* The out-of-window path with the opener sent before the row is created.
QueueThenOpener_OpenerFirst(reg, tmpl, text, env, q, ob) ==
  LET row == [id |-> Len(q) + 1, event |-> RegEvent[reg], registration |-> reg,
              template |-> tmpl, rendered_text |-> text]
      opener == [kind |-> "opener", to |-> RegPhone[reg], reg |-> reg,
                 id |-> NextMessageId(ob)]
  IN  IF env.opener_fails
      THEN [status |-> 502, error |-> "opener_failed", queue |-> q, outbox |-> ob,
            opener_message_id |-> 0, calls |-> <<"send_resume_opener">>]
      ELSE IF env.queue_fails
      THEN [status |-> 500, error |-> "queue_failed", queue |-> q,
            outbox |-> Append(ob, opener), opener_message_id |-> 0,
            calls |-> <<"send_resume_opener", "QueuedMessage.create">>]
      ELSE [status |-> 200, error |-> "", queue |-> Append(q, row),
            outbox |-> Append(ob, opener), opener_message_id |-> opener.id,
            calls |-> <<"send_resume_opener", "QueuedMessage.create">>]

\* The out-of-window path with a failed opener undoing the queue insert.
QueueThenOpener_Rollback(reg, tmpl, text, env, q, ob) ==
  LET row == [id |-> Len(q) + 1, event |-> RegEvent[reg], registration |-> reg,
              template |-> tmpl, rendered_text |-> text]
      opener == [kind |-> "opener", to |-> RegPhone[reg], reg |-> reg,
                 id |-> NextMessageId(ob)]
  IN  IF env.queue_fails
      THEN [status |-> 500, error |-> "queue_failed", queue |-> q, outbox |-> ob,
            opener_message_id |-> 0, calls |-> <<"QueuedMessage.create">>]
      ELSE IF env.opener_fails
      THEN [status |-> 502, error |-> "opener_failed", queue |-> q, outbox |-> ob,
            opener_message_id |-> 0,
            calls |-> <<"QueuedMessage.create", "send_resume_opener">>]
      ELSE [status |-> 200, error |-> "", queue |-> Append(q, row),
            outbox |-> Append(ob, opener), opener_message_id |-> opener.id,
            calls |-> <<"QueuedMessage.create", "send_resume_opener">>]

\* The out-of-window path that queues nothing.
QueueThenOpener_NoRow(reg, tmpl, text, env, q, ob) ==
  LET opener == [kind |-> "opener", to |-> RegPhone[reg], reg |-> reg,
                 id |-> NextMessageId(ob)]
  IN  IF env.queue_fails
      THEN [status |-> 500, error |-> "queue_failed", queue |-> q, outbox |-> ob,
            opener_message_id |-> 0, calls |-> <<"QueuedMessage.create">>]
      ELSE IF env.opener_fails
      THEN [status |-> 502, error |-> "opener_failed", queue |-> q, outbox |-> ob,
            opener_message_id |-> 0,
            calls |-> <<"QueuedMessage.create", "send_resume_opener">>]
      ELSE [status |-> 200, error |-> "", queue |-> q,
            outbox |-> Append(ob, opener), opener_message_id |-> opener.id,
            calls |-> <<"QueuedMessage.create", "send_resume_opener">>]

\* The out-of-window path of the view: create the QueuedMessage, then send
\* the opener; the calls made, in order.
QueueThenOpener(reg, tmpl, text, env, q, ob) ==
  LET row == [id |-> Len(q) + 1, event |-> RegEvent[reg], registration |-> reg,
              template |-> tmpl, rendered_text |-> text]
      opener == [kind |-> "opener", to |-> RegPhone[reg], reg |-> reg,
                 id |-> NextMessageId(ob)]
  IN  IF env.queue_fails
      THEN [status |-> 500, error |-> "queue_failed", queue |-> q, outbox |-> ob,
            opener_message_id |-> 0, calls |-> <<"QueuedMessage.create">>]
      ELSE IF env.opener_fails
      THEN [status |-> 502, error |-> "opener_failed", queue |-> Append(q, row),
            outbox |-> ob, opener_message_id |-> 0,
            calls |-> <<"QueuedMessage.create", "send_resume_opener">>]
      ELSE [status |-> 200, error |-> "", queue |-> Append(q, row),
            outbox |-> Append(ob, opener), opener_message_id |-> opener.id,
            calls |-> <<"QueuedMessage.create", "send_resume_opener">>]

\* The in-window path that also queues the text.
Freeform_AlsoQueues(reg, tmpl, text, env, q, ob) ==
  LET row == [id |-> Len(q) + 1, event |-> RegEvent[reg], registration |-> reg,
              template |-> tmpl, rendered_text |-> text]
      msg == [kind |-> "freeform", to |-> RegPhone[reg], text |-> text,
              id |-> NextMessageId(ob)]
  IN  IF env.freeform_fails
      THEN [status |-> 502, error |-> "send_failed", queue |-> Append(q, row),
            outbox |-> ob, message_id |-> 0,
            calls |-> <<"QueuedMessage.create", "send_freeform_text">>]
      ELSE [status |-> 200, error |-> "", queue |-> Append(q, row),
            outbox |-> Append(ob, msg), message_id |-> msg.id,
            calls |-> <<"QueuedMessage.create", "send_freeform_text">>]

\* The in-window path of the view: send the text free-form.
Freeform(reg, tmpl, text, env, q, ob) ==
  LET msg == [kind |-> "freeform", to |-> RegPhone[reg], text |-> text,
              id |-> NextMessageId(ob)]
  IN  IF env.freeform_fails
      THEN [status |-> 502, error |-> "send_failed", queue |-> q, outbox |-> ob,
            message_id |-> 0, calls |-> <<"send_freeform_text">>]
      ELSE [status |-> 200, error |-> "", queue |-> q, outbox |-> Append(ob, msg),
            message_id |-> msg.id, calls |-> <<"send_freeform_text">>]

\* SendLocalTemplateView.post(request, event_id, registration_id) in an
\* environment env: the response, the queue and the outbox it leaves.
SendOutcome(rq, env, rg, q, ob, t) ==
  LET reg == rq.registration_id
      tmpl == rq.template_id
      text == Rendered(tmpl, reg)
      in_window == InWindow(rg, reg, t)
      Fail(st, err, cs) ==
        [sresp |-> [NoSendResp EXCEPT !.status = st, !.error = err, !.calls = cs,
                                      !.at = t],
         queue |-> q, outbox |-> ob]
      ff == Freeform(reg, tmpl, text, env, q, ob)
      qo == QueueThenOpener(reg, tmpl, text, env, q, ob)
  IN  IF tmpl = Null
        THEN Fail(400, "invalid", <<>>)
      ELSE IF reg \notin RegIds \/ RegEvent[reg] # rq.event_id
        THEN Fail(404, "not found", <<>>)
      ELSE IF tmpl \notin Templates
        THEN Fail(404, "not found", <<>>)
      ELSE IF env.render_fails
        THEN Fail(400, "render_failed", <<"render_template_with_vars">>)
      ELSE IF RegPhone[reg] = <<>>
        THEN Fail(400, "guest_has_no_phone", <<"render_template_with_vars">>)
      ELSE IF in_window
        THEN [sresp |-> [status |-> ff.status, ok |-> ff.status = 200,
                         result |-> IF ff.status = 200 THEN "sent" ELSE "",
                         error |-> ff.error, message_id |-> ff.message_id,
                         opener_message_id |-> 0, reg |-> reg, in_window |-> TRUE,
                         at |-> t,
                         calls |-> <<"render_template_with_vars">> \o ff.calls],
              queue |-> ff.queue, outbox |-> ff.outbox]
      ELSE [sresp |-> [status |-> qo.status, ok |-> qo.status = 200,
                       result |-> IF qo.status = 200 THEN "queued" ELSE "",
                       error |-> qo.error, message_id |-> 0,
                       opener_message_id |-> qo.opener_message_id, reg |-> reg,
                       in_window |-> FALSE, at |-> t,
                       calls |-> <<"render_template_with_vars">> \o qo.calls],
            queue |-> qo.queue, outbox |-> qo.outbox]

\* The WaSendMap tables a behaviour starts from: the empty table, and the
\* table an earlier track_send of a correlated send to the first guest left.
SeedRequest == TReq(<<"s">>, Wa1, "E1", "R1", "W1")
SeedTables(sec) == {<<>>, TrackSendOutcome(SeedRequest, sec, <<>>, 0).maps}

Init ==
  /\ secret \in Secrets
  /\ now = 0
  /\ regs = [r \in RegIds |-> [rsvp_status |-> Unset, responded_on |-> NoTime]]
  /\ maps \in SeedTables(secret)
  /\ channel = <<>>
  /\ resp = NoResp
  /\ h = NoH
  /\ nreq = 0
  /\ queue = <<>>
  /\ outbox = <<>>
  /\ sresp = NoSendResp
  /\ pc = [p \in Procs |-> "done"]
  /\ loc = [p \in Procs |-> NoLoc]
  /\ uniq = FALSE

\* ----------------------------------------------------------------- actions
track_send(rq) ==
  /\ nreq < MaxReqs
  /\ LET out == TrackSendOutcome(rq, secret, maps, now)
     IN  /\ maps' = out.maps
         /\ resp' = out.resp
         /\ h' = out.h
  /\ nreq' = nreq + 1
  /\ UNCHANGED <<secret, now, regs, channel, sendVars, raceVars>>

whatsapp_rsvp(rq, env) ==
  /\ nreq < MaxReqs
  /\ LET out == RsvpOutcome(rq, env, secret, regs, maps, channel, now)
     IN  /\ regs' = out.regs
         /\ maps' = out.maps
         /\ channel' = out.channel
         /\ resp' = out.resp
         /\ h' = out.h
  /\ nreq' = nreq + 1
  /\ UNCHANGED <<secret, now, sendVars, raceVars>>

Tick ==
  /\ \E d \in TickSteps : now + d <= MaxNow /\ now' = now + d
  /\ UNCHANGED <<secret, regs, maps, channel, resp, h, nreq, sendVars, raceVars>>

Next ==
  \/ \E rq \in TrackRequests : track_send(rq)
  \/ \E rq \in RsvpRequests, env \in Envs : whatsapp_rsvp(rq, env)
  \/ Tick

Spec == Init /\ [][Next]_vars

\* The endpoint with the webhook that sets responded_on and the clock.
InitSend ==
  /\ secret = <<"s", " ">>
  /\ now = 0
  /\ regs = [r \in RegIds |-> [rsvp_status |-> Unset, responded_on |-> NoTime]]
  /\ maps = <<>>
  /\ channel = <<>>
  /\ resp = NoResp
  /\ h = NoH
  /\ nreq = 0
  /\ queue = <<>>
  /\ outbox = <<>>
  /\ sresp = NoSendResp
  /\ pc = [p \in Procs |-> "done"]
  /\ loc = [p \in Procs |-> NoLoc]
  /\ uniq = FALSE

send_template(rq, env) ==
  /\ nreq < MaxReqs
  /\ LET out == SendOutcome(rq, env, regs, queue, outbox, now)
     IN  /\ queue' = out.queue
         /\ outbox' = out.outbox
         /\ sresp' = out.sresp
  /\ nreq' = nreq + 1
  /\ UNCHANGED <<secret, now, regs, maps, channel, resp, h, raceVars>>

WindowRsvp == \E rq \in WindowRsvps : whatsapp_rsvp(rq, OkEnv)

WindowTick ==
  /\ \E d \in WindowTickSteps : now + d <= MaxSendNow /\ now' = now + d
  /\ UNCHANGED <<secret, regs, maps, channel, resp, h, nreq, sendVars, raceVars>>

NextSend ==
  \/ \E rq \in SendRequests, env \in SendEnvs : send_template(rq, env)
  \/ WindowRsvp
  \/ WindowTick

SpecSend == InitSend /\ [][NextSend]_vars

\* -------------------------------------------------------- concurrent requests
\* track_send requests that race: with the correlator W1, and without one for
\* (wa_id of Wa1, E1); the last one fails validation.
RaceTrackRequests ==
  { TReq(<<"s">>, Wa1, "E1", "R1", "W1"), TReq(<<"s">>, Wa1, "E1", "R2", "W1"),
    TReq(<<"s">>, Wa1, "E1", "R1", Null), TReq(<<"s">>, Wa1, "E1", "R2", Null),
    TReq(<<"s">>, NoWa, "E1", "R1", "W1") }

\* RSVP webhooks that race on registration R1; the last two fail before the write.
RaceRsvpRequests ==
  { RReq(<<"s">>, Yes, 7, "R1", NoWa, Null, Null),
    RReq(<<"s">>, No, NoTime, "R1", NoWa, Null, Null),
    RReq(<<"s">>, Nope, 7, "R1", NoWa, Null, Null),
    RReq(<<"x">>, No, 7, "R1", NoWa, Null, Null) }

\* save() that writes each field in an UPDATE of its own.
SaveSteps_PerField == << {"rsvp_status"}, {"responded_on"} >>
\* The UPDATE statements of er.save(update_fields=[...]) and the columns of each.
SaveSteps == << {"rsvp_status", "responded_on"} >>

\* Rows locked by the select_for_update of other requests.
LockedByOthers(p) ==
  UNION {loc[q].hit : q \in {x \in Procs \ {p} : pc[x] = "write"}}

InitRace ==
  /\ secret = <<"s", " ">>
  /\ now = 0
  /\ regs = [r \in RegIds |-> [rsvp_status |-> Unset, responded_on |-> NoTime]]
  /\ maps \in SeedTables(secret)
  /\ channel = <<>>
  /\ resp = NoResp
  /\ h = NoH
  /\ nreq = 0
  /\ queue = <<>>
  /\ outbox = <<>>
  /\ sresp = NoSendResp
  /\ pc = [p \in Procs |-> "idle"]
  /\ loc = [p \in Procs |-> NoLoc]
  /\ uniq \in BOOLEAN

\* track_send up to the lookup of update_or_create (select_for_update().get).
TrackLookup(p, rq) ==
  /\ pc[p] = "idle"
  /\ LET pre == TrackSendOutcome(rq, secret, maps, now)
         wa_id == norm_digits(rq.wa_id)
         er == pre.h.er
         wm == OrNone(rq.template_wamid)
         hit == UpsertHits(maps, wa_id, er, wm)
     IN  IF pre.resp.status # 200
         THEN /\ pc' = [pc EXCEPT ![p] = "done"]
              /\ loc' = [loc EXCEPT ![p] = [NoLoc EXCEPT !.kind = "track", !.rq = rq,
                                              !.status = pre.resp.status]]
         ELSE /\ hit \cap LockedByOthers(p) = {}
              /\ pc' = [pc EXCEPT ![p] = "write"]
              /\ loc' = [loc EXCEPT ![p] = [NoLoc EXCEPT !.kind = "track", !.rq = rq,
                                              !.wa_id = wa_id, !.er = er,
                                              !.template_wamid = wm, !.hit = hit]]
  /\ UNCHANGED <<secret, now, regs, maps, channel, resp, h, nreq, sendVars, uniq>>

\* The write of update_or_create: create when the lookup matched nothing,
\* else update the row it locked.  When the database enforces the key and a
\* row for it has appeared since, create() raises IntegrityError and
\* get_or_create reads the row again.
TrackWrite(p) ==
  /\ pc[p] = "write"
  /\ loc[p].kind = "track"
  /\ LET l == loc[p]
         again == UpsertHits(maps, l.wa_id, l.er, l.template_wamid)
         hit == IF l.hit = {} /\ uniq /\ again # {} THEN again ELSE l.hit
         up == UpsertWrite(maps, hit, l.wa_id, l.er, l.template_wamid, now)
     IN  /\ maps' = up.tbl
         /\ loc' = [loc EXCEPT ![p].status = IF up.ok THEN 200 ELSE 400]
  /\ pc' = [pc EXCEPT ![p] = "done"]
  /\ UNCHANGED <<secret, now, regs, channel, resp, h, nreq, sendVars, uniq>>

\* whatsapp_rsvp up to the lookup of the registration named by the request.
RsvpLookup(p, rq) ==
  /\ pc[p] = "idle"
  /\ LET pre == RsvpOutcome(rq, OkEnv, secret, regs, maps, channel, now)
     IN  IF pre.resp.status # 200
         THEN /\ pc' = [pc EXCEPT ![p] = "done"]
              /\ loc' = [loc EXCEPT ![p] = [NoLoc EXCEPT !.kind = "rsvp", !.rq = rq,
                                              !.status = pre.resp.status]]
         ELSE /\ pc' = [pc EXCEPT ![p] = "save"]
              /\ loc' = [loc EXCEPT ![p] = [NoLoc EXCEPT !.kind = "rsvp", !.rq = rq,
                                              !.er = pre.h.er,
                                              !.pair = pre.regs[pre.h.er],
                                              !.step = 1]]
  /\ UNCHANGED <<secret, now, regs, maps, channel, resp, h, nreq, sendVars, uniq>>

\* One UPDATE of er.save(update_fields=["rsvp_status", "responded_on"]).
RsvpSave(p) ==
  /\ pc[p] = "save"
  /\ LET l == loc[p]
         cols == SaveSteps[l.step]
     IN  /\ regs' = [regs EXCEPT ![l.er] =
                       [f \in DOMAIN regs[l.er] |->
                          IF f \in cols THEN l.pair[f] ELSE regs[l.er][f]]]
         /\ loc' = [loc EXCEPT ![p].step = l.step + 1]
         /\ pc' = [pc EXCEPT ![p] = IF l.step = Len(SaveSteps) THEN "publish" ELSE "save"]
  /\ UNCHANGED <<secret, now, maps, channel, resp, h, nreq, sendVars, uniq>>

\* group_send, the consumption step and the response of whatsapp_rsvp.
RsvpFinish(p) ==
  /\ pc[p] = "publish"
  /\ LET out == RsvpOutcome(loc[p].rq, OkEnv, secret, regs, maps, channel, now)
     IN  /\ channel' = out.channel
         /\ maps' = out.maps
         /\ loc' = [loc EXCEPT ![p].status = out.resp.status]
  /\ pc' = [pc EXCEPT ![p] = "done"]
  /\ UNCHANGED <<secret, now, regs, resp, h, nreq, sendVars, uniq>>

NextRace ==
  \/ \E p \in Procs, rq \in RaceTrackRequests : TrackLookup(p, rq)
  \/ \E p \in Procs : TrackWrite(p)
  \/ \E p \in Procs, rq \in RaceRsvpRequests : RsvpLookup(p, rq)
  \/ \E p \in Procs : RsvpSave(p)
  \/ \E p \in Procs : RsvpFinish(p)

SpecRace == InitRace /\ [][NextRace]_vars

\* ------------------------------------------------------------------ claims
\* Rows whose expiry is in the future.
LiveRows == {k \in DOMAIN maps : maps[k].expires_at > now}

\* C1: in every reachable state, an accepted track_send without correlator
\* for identity i, event e and a registration r of event e succeeds, and an
\* RSVP webhook issued right after it with wa_id i and event_id e (no
\* correlator, no registration id) resolves to r.
C1_RoundTrip ==
  \A rq \in TrackRequests :
    ( /\ TokenAccepted(rq.token, secret)
      /\ norm_digits(rq.wa_id) # <<>>
      /\ rq.template_wamid = Null
      /\ rq.event_registration_id \in RegIds
      /\ rq.event_id = RegEvent[rq.event_registration_id] )
    => LET sent == TrackSendOutcome(rq, secret, maps, now)
           reply == RsvpOutcome(RReq(rq.token, Yes, NoTime, Null, rq.wa_id, Null, rq.event_id),
                                OkEnv, secret, regs, sent.maps, channel, now)
       IN  /\ sent.resp.status = 200
           /\ reply.resp.status = 200
           /\ reply.resp.id = rq.event_registration_id

\* C2: given two live mappings of one identity with different correlators
\* and different registrations, an RSVP webhook with that wa_id and the
\* correlator of one of them resolves to the registration of that one,
\* whichever was created later and whatever event_id the request carries.
C2_CorrelatorWins ==
  \A k1 \in LiveRows, k2 \in LiveRows :
    ( /\ k1 # k2
      /\ maps[k1].wa_id = maps[k2].wa_id
      /\ maps[k1].template_wamid # Null
      /\ maps[k2].template_wamid # Null
      /\ maps[k1].template_wamid # maps[k2].template_wamid
      /\ maps[k1].event_registration # maps[k2].event_registration )
    => \A raw \in {Wa1, Wa2}, ev \in EventIdInputs :
         norm_digits(raw) = maps[k1].wa_id
         => LET reply == RsvpOutcome(RReq(<<"s">>, Yes, NoTime, Null, raw,
                                          maps[k1].template_wamid, ev),
                                     OkEnv, secret, regs, maps, channel, now)
            IN  /\ reply.resp.status = 200
                /\ reply.resp.id = maps[k1].event_registration
                /\ reply.h.via = k1

\* C2 witness: a webhook was resolved by its correlator through a mapping
\* while a later-created live mapping of the same identity carries another
\* correlator and another registration.
C2_Witness ==
  /\ h.op = "whatsapp_rsvp"
  /\ h.prio = 1
  /\ resp.status = 200
  /\ h.via \in LiveRows
  /\ \E k2 \in LiveRows :
       /\ k2 > h.via
       /\ maps[k2].wa_id = maps[h.via].wa_id
       /\ maps[k2].template_wamid \notin {Null, maps[h.via].template_wamid}
       /\ maps[k2].event_registration # maps[h.via].event_registration
       /\ resp.id = maps[h.via].event_registration

\* C3: when every mapping stored for an identity has expires_at <= now, an
\* accepted RSVP webhook with a valid status that names the guest by wa_id
\* only fails with 'no mapping found', and registrations, mappings and the
\* notification channel stay as they were.
C3_ExpiredNoMapping ==
  \A rq \in RsvpRequests, env \in Envs :
    LET wa == norm_digits(rq.wa_id)
        out == RsvpOutcome(rq, env, secret, regs, maps, channel, now)
    IN  ( /\ TokenAccepted(rq.token, secret)
          /\ lower(strip(rq.rsvp_status)) \in ValidRsvp
          /\ rq.event_registration_id = Null
          /\ wa # <<>>
          /\ \E k \in DOMAIN maps : maps[k].wa_id = wa
          /\ \A k \in DOMAIN maps : maps[k].wa_id = wa => maps[k].expires_at <= now )
        => /\ out.resp = BadRequest("no mapping found for wa_id")
           /\ out.regs = regs
           /\ out.maps = maps
           /\ out.channel = channel

\* C3 witness: a webhook failed with 'no mapping found' although rows of its
\* identity exist, all of them expired.
C3_Witness ==
  /\ h.op = "whatsapp_rsvp"
  /\ resp.reason = "no mapping found for wa_id"
  /\ \E k \in DOMAIN maps : maps[k].wa_id = h.wa_id
  /\ \A k \in DOMAIN maps : maps[k].wa_id = h.wa_id => maps[k].expires_at <= now

\* C4: among the non-expired rows, no two rows without correlator share
\* (wa_id, event), and no two rows share a correlator.
C4_StoreInvariant ==
  \A k1 \in LiveRows, k2 \in LiveRows :
    k1 # k2 =>
      /\ (maps[k1].template_wamid = Null /\ maps[k2].template_wamid = Null)
           => ~(maps[k1].wa_id = maps[k2].wa_id /\ maps[k1].event = maps[k2].event)
      /\ maps[k1].template_wamid # Null
           => maps[k1].template_wamid # maps[k2].template_wamid

\* C4 witness: a track_send succeeded by updating an older row while a live
\* row without correlator and a live row with one are stored.
C4_Witness ==
  /\ h.op = "track_send"
  /\ resp.status = 200
  /\ resp.map_id < Len(maps)
  /\ \E k1 \in LiveRows, k2 \in LiveRows :
       maps[k1].template_wamid = Null /\ maps[k2].template_wamid # Null

\* C5: when a webhook resolved its registration through a mapping, the
\* update and the publish succeeded and the consumption step ran, the
\* mapping it was resolved through has consumed_at set.
C5_ResolvedMappingConsumed ==
  ( /\ h.op = "whatsapp_rsvp"
    /\ h.prio \in 1..3
    /\ h.publish = "sent"
    /\ h.consume = "done"
    /\ resp.status = 200 )
  => maps[h.via].consumed_at # NoTime

\* A request leaves registrations, mappings and the channel untouched.
TrackLeaves(out) == out.maps = maps
RsvpLeaves(out) == out.regs = regs /\ out.maps = maps /\ out.channel = channel

C7_PublishFailureTolerated ==
  h.publish = "raised" => (resp.status = 200 /\ h.consume # "none")

\* C8: when the consumption step raises, the request returns the success
\* response, the registration holds the status and timestamp of the
\* request, the notification stays published, and no mapping changes.
C8_ConsumeFailureSwallowed ==
  \A rq \in RsvpRequests :
    LET out == RsvpOutcome(rq, [publish_fails |-> FALSE, consume_fails |-> TRUE],
                           secret, regs, maps, channel, now)
        er == out.h.er
    IN  out.h.consume = "raised"
        => /\ out.resp.status = 200
           /\ out.resp.id = er
           /\ out.regs[er].rsvp_status = lower(strip(rq.rsvp_status))
           /\ out.regs[er].responded_on =
                (IF rq.responded_on # NoTime THEN rq.responded_on ELSE now)
           /\ out.resp.rsvp_status = out.regs[er].rsvp_status
           /\ Len(out.channel) = Len(channel) + 1
           /\ SubSeq(out.channel, 1, Len(channel)) = channel
           /\ out.channel[Len(out.channel)].id = er
           /\ out.maps = maps

\* C8 witness: a webhook whose consumption step raised was answered with
\* success; its registration holds the new status and its notification is
\* the last one on the channel.
C8_Witness ==
  /\ h.consume = "raised"
  /\ resp.status = 200
  /\ regs[h.er].rsvp_status = resp.rsvp_status
  /\ channel # <<>>
  /\ channel[Len(channel)].id = h.er
  /\ \E k \in LiveRows : maps[k].event_registration = h.er

\* C9: an accepted webhook whose rsvp_status, trimmed and lower-cased, is
\* none of yes, no, maybe fails with a client error and changes nothing,
\* whatever identifying fields it carries.
C9_InvalidStatusRejected ==
  \A rq \in RsvpRequests, env \in Envs :
    ( /\ TokenAccepted(rq.token, secret)
      /\ lower(strip(rq.rsvp_status))
           \notin {<<"y", "e", "s">>, <<"n", "o">>, <<"m", "a", "y", "b", "e">>} )
    => LET out == RsvpOutcome(rq, env, secret, regs, maps, channel, now)
       IN  out.resp = BadRequest("invalid rsvp_status") /\ RsvpLeaves(out)

\* C9 witness: a webhook was rejected for its status while a live mapping
\* is stored.
C9_Witness ==
  /\ h.op = "whatsapp_rsvp"
  /\ resp = BadRequest("invalid rsvp_status")
  /\ LiveRows # {}

\* C10: an accepted webhook with a valid status that carries
\* event_registration_id updates that registration and no other, whatever
\* wa_id, correlator and event_id it carries and whatever mappings exist;
\* when no such registration exists it fails with 'registration not found'
\* and changes nothing.
C10_ExplicitIdDecides ==
  \A rq \in RsvpRequests, env \in Envs :
    ( /\ TokenAccepted(rq.token, secret)
      /\ lower(strip(rq.rsvp_status)) \in ValidRsvp
      /\ rq.event_registration_id # Null )
    => LET out == RsvpOutcome(rq, env, secret, regs, maps, channel, now)
           id == rq.event_registration_id
       IN  IF id \in RegIds
           THEN /\ out.h.er = id
                /\ \A r \in RegIds \ {id} : out.regs[r] = regs[r]
                /\ ~env.publish_fails =>
                     /\ out.resp.status = 200
                     /\ out.resp.id = id
                     /\ out.regs[id].rsvp_status = lower(strip(rq.rsvp_status))
                     /\ out.regs[id].responded_on =
                          (IF rq.responded_on # NoTime THEN rq.responded_on ELSE now)
           ELSE out.resp = BadRequest("registration not found") /\ RsvpLeaves(out)

\* C10 witness: a webhook naming a registration updated it although a live
\* mapping of the wa_id it carried points to another registration.
C10_Witness ==
  /\ h.op = "whatsapp_rsvp"
  /\ h.prio = 0
  /\ resp.status = 200
  /\ regs[resp.id].rsvp_status = resp.rsvp_status
  /\ \E k \in LiveRows :
       maps[k].wa_id = h.wa_id /\ maps[k].event_registration # resp.id

\* The live rows of an identity, and the most recently created row of a set.
LiveOf(wa) == {k \in LiveRows : maps[k].wa_id = wa}
Newest(S) == CHOOSE k \in S : \A j \in S : maps[j].created_at <= maps[k].created_at

\* C11: an accepted webhook with a valid status and no registration id
\* resolves, among the live mappings of its identity, to the mapping with its
\* correlator if there is one, else to the newest live mapping of its event
\* if event_id is given and there is one, else to the newest live mapping;
\* it fails with 'no mapping found' only when the identity has none.
C11_PriorityFallback ==
  \A rq \in RsvpRequests :
    LET wa == norm_digits(rq.wa_id)
        out == RsvpOutcome(rq, OkEnv, secret, regs, maps, channel, now)
        byWamid == {k \in LiveOf(wa) : rq.template_wamid # Null
                                        /\ maps[k].template_wamid = rq.template_wamid}
        byEvent == {k \in LiveOf(wa) : rq.event_id # Null /\ maps[k].event = rq.event_id}
    IN  ( /\ TokenAccepted(rq.token, secret)
          /\ lower(strip(rq.rsvp_status)) \in ValidRsvp
          /\ rq.event_registration_id = Null
          /\ wa # <<>> )
        => IF byWamid # {}
             THEN out.h.via \in byWamid
                  /\ out.resp.id = maps[out.h.via].event_registration
           ELSE IF byEvent # {}
             THEN out.h.via = Newest(byEvent)
                  /\ out.resp.id = maps[Newest(byEvent)].event_registration
           ELSE IF LiveOf(wa) # {}
             THEN out.h.via = Newest(LiveOf(wa))
                  /\ out.resp.id = maps[Newest(LiveOf(wa))].event_registration
           ELSE out.resp = BadRequest("no mapping found for wa_id")

\* C11 witness: a webhook was resolved by its event through a mapping while
\* a live mapping of the same identity, created later, belongs to another
\* event and another registration.
C11_Witness ==
  /\ h.op = "whatsapp_rsvp"
  /\ h.prio = 2
  /\ resp.status = 200
  /\ resp.id = maps[h.via].event_registration
  /\ \E k \in LiveOf(h.wa_id) :
       /\ maps[k].created_at > maps[h.via].created_at
       /\ maps[k].event # maps[h.via].event
       /\ maps[k].event_registration # resp.id

\* C12: a webhook that succeeds, applied a second time at the same instant to
\* the same registration, leaves the registrations as the first did, and
\* each of the two publishes its notification to the group event_<event of
\* the registration>: two more messages on the channel, none dropped.
C12_RepeatedRsvp ==
  \A rq \in RsvpRequests :
    LET once == RsvpOutcome(rq, OkEnv, secret, regs, maps, channel, now)
        twice == RsvpOutcome(rq, OkEnv, secret, once.regs, once.maps, once.channel, now)
        er == once.h.er
        n == Len(channel)
    IN  once.resp.status = 200
        => /\ twice.resp.status = 200
           /\ twice.h.er = er
           /\ twice.regs = once.regs
           /\ Len(once.channel) = n + 1
           /\ Len(twice.channel) = n + 2
           /\ SubSeq(twice.channel, 1, n) = channel
           /\ \A k \in {n + 1, n + 2} :
                /\ twice.channel[k].group = "event_" \o RegEvent[er]
                /\ twice.channel[k].id = er
                /\ twice.channel[k].rsvp_status = lower(strip(rq.rsvp_status))

\* C12 witness: two webhooks in a row published the same notification for
\* the registration the last one updated.
C12_Witness ==
  /\ h.op = "whatsapp_rsvp"
  /\ resp.status = 200
  /\ Len(channel) >= 2
  /\ channel[Len(channel)] = channel[Len(channel) - 1]
  /\ channel[Len(channel)].id = resp.id
  /\ regs[resp.id].rsvp_status = resp.rsvp_status
  /\ regs[resp.id].responded_on = resp.responded_on


\* ------------------------------------------------- claims on send-template
Called(c, calls) == \E i \in DOMAIN calls : calls[i] = c

\* The request passes validation, both lookups, rendering and the phone test.
ReachesWindowTest(rq, env) ==
  /\ rq.template_id \in Templates
  /\ rq.registration_id \in RegIds
  /\ RegEvent[rq.registration_id] = rq.event_id
  /\ ~env.render_fails
  /\ RegPhone[rq.registration_id] # <<>>

\* responded_on of the registration is set and less than 24 hours old.
Fresh(reg) ==
  regs[reg].responded_on # NoTime /\ now - regs[reg].responded_on < WindowHours

RowsOf(q, reg) == {i \in DOMAIN q : q[i].registration = reg}

C14_QueuedOutcome ==
  \A rq \in SendRequests, env \in SendEnvs :
    LET out == SendOutcome(rq, env, regs, queue, outbox, now)
        reg == rq.registration_id
        n == Len(queue)
        m == Len(outbox)
    IN  (ReachesWindowTest(rq, env) /\ ~Fresh(reg) /\ ~env.queue_fails
           /\ ~env.opener_fails) =>
          /\ out.sresp.status = 200 /\ out.sresp.ok
          /\ out.sresp.result = "queued"
          /\ Len(out.queue) = n + 1
          /\ SubSeq(out.queue, 1, n) = queue
          /\ out.queue[n + 1].rendered_text = Rendered(rq.template_id, reg)
          /\ out.queue[n + 1].registration = reg
          /\ out.queue[n + 1].event = RegEvent[reg]
          /\ out.queue[n + 1].template = rq.template_id
          /\ Len(out.outbox) = m + 1
          /\ SubSeq(out.outbox, 1, m) = outbox
          /\ out.outbox[m + 1].kind = "opener"
          /\ out.outbox[m + 1].reg = reg
          /\ out.outbox[m + 1].to = RegPhone[reg]
          /\ out.sresp.opener_message_id = out.outbox[m + 1].id
          /\ ~Called("send_freeform_text", out.sresp.calls)

\* A request answered "queued" left its row last in the queue and its opener
\* last in the outbox, for a registration that never replied.
C14_Witness ==
  /\ sresp.result = "queued"
  /\ sresp.at = now
  /\ regs[sresp.reg].responded_on = NoTime
  /\ queue # <<>> /\ queue[Len(queue)].registration = sresp.reg
  /\ outbox # <<>> /\ outbox[Len(outbox)].kind = "opener"
  /\ outbox[Len(outbox)].id = sresp.opener_message_id

\* The queue after n repetitions of a request in the same environment.
RECURSIVE RepeatSend(_, _, _, _, _)
RepeatSend(rq, env, q, ob, n) ==
  IF n = 0 THEN [queue |-> q, outbox |-> ob]
  ELSE LET out == SendOutcome(rq, env, regs, q, ob, now)
       IN  RepeatSend(rq, env, out.queue, out.outbox, n - 1)

\* C15: outside the window, when the opener fails the response is 502 and
\* the QueuedMessage of the request stays; repeating the failing request n
\* times leaves n more QueuedMessages for the registration.
C15_OpenerFailureKeepsRow ==
  \A rq \in SendRequests, env \in SendEnvs :
    LET out == SendOutcome(rq, env, regs, queue, outbox, now)
        reg == rq.registration_id
        n == Len(queue)
    IN  (ReachesWindowTest(rq, env) /\ ~Fresh(reg) /\ ~env.queue_fails
           /\ env.opener_fails) =>
          /\ out.sresp.status = 502
          /\ out.sresp.error = "opener_failed"
          /\ Len(out.queue) = n + 1
          /\ SubSeq(out.queue, 1, n) = queue
          /\ out.queue[n + 1].registration = reg
          /\ out.queue[n + 1].rendered_text = Rendered(rq.template_id, reg)
          /\ \A k \in 0..MaxRepeat :
               Cardinality(RowsOf(RepeatSend(rq, env, queue, outbox, k).queue, reg))
                 = Cardinality(RowsOf(queue, reg)) + k

\* Two requests failed at the opener and the registration has two rows.
C15_Witness ==
  /\ sresp.status = 502
  /\ sresp.error = "opener_failed"
  /\ Cardinality(RowsOf(queue, sresp.reg)) >= 2
  /\ outbox = <<>>

\* C16: the opener is sent only after the QueuedMessage has been persisted;
\* when persisting fails the response is 500 and neither the opener nor a
\* free-form text is sent.
C16_QueueBeforeOpener ==
  \A rq \in SendRequests, env \in SendEnvs :
    LET out == SendOutcome(rq, env, regs, queue, outbox, now)
        reg == rq.registration_id
        calls == out.sresp.calls
    IN  /\ \A i \in DOMAIN calls :
             calls[i] = "send_resume_opener" =>
               /\ \E j \in 1..(i - 1) : calls[j] = "QueuedMessage.create"
               /\ Len(out.queue) = Len(queue) + 1
               /\ out.queue[Len(out.queue)].registration = reg
        /\ (ReachesWindowTest(rq, env) /\ ~Fresh(reg) /\ env.queue_fails) =>
             /\ out.sresp.status = 500
             /\ out.sresp.error = "queue_failed"
             /\ out.outbox = outbox
             /\ out.queue = queue
             /\ ~Called("send_resume_opener", calls)
             /\ ~Called("send_freeform_text", calls)

\* A request failed at the queue insert and nothing was sent.
C16_Witness ==
  /\ sresp.status = 500
  /\ sresp.error = "queue_failed"
  /\ sresp.calls = <<"render_template_with_vars", "QueuedMessage.create">>
  /\ outbox = <<>>
  /\ queue = <<>>

\* The request is valid and both of its rows exist.
FoundBoth(rq) ==
  /\ rq.template_id \in Templates
  /\ rq.registration_id \in RegIds
  /\ RegEvent[rq.registration_id] = rq.event_id

\* C17: inside the window nothing is persisted and no opener is sent,
\* whether the free-form send succeeds or fails with 502; a render failure
\* or a guest without a phone is answered 400 before any message is sent or
\* any QueuedMessage is created.
C17_NoSideEffects ==
  \A rq \in SendRequests, env \in SendEnvs :
    LET out == SendOutcome(rq, env, regs, queue, outbox, now)
        reg == rq.registration_id
        m == Len(outbox)
    IN  /\ (ReachesWindowTest(rq, env) /\ Fresh(reg)) =>
             /\ out.queue = queue
             /\ ~Called("QueuedMessage.create", out.sresp.calls)
             /\ ~Called("send_resume_opener", out.sresp.calls)
             /\ \A i \in DOMAIN out.outbox : i > m => out.outbox[i].kind = "freeform"
             /\ env.freeform_fails =>
                  out.sresp.status = 502 /\ out.outbox = outbox
             /\ ~env.freeform_fails =>
                  /\ out.sresp.status = 200
                  /\ out.outbox = Append(outbox, out.outbox[m + 1])
                  /\ out.outbox[m + 1].text = Rendered(rq.template_id, reg)
                  /\ out.sresp.message_id = out.outbox[m + 1].id
        /\ (FoundBoth(rq) /\ env.render_fails) =>
             /\ out.sresp.status = 400
             /\ out.sresp.error = "render_failed"
             /\ out.queue = queue /\ out.outbox = outbox
        /\ (FoundBoth(rq) /\ ~env.render_fails /\ RegPhone[reg] = <<>>) =>
             /\ out.sresp.status = 400
             /\ out.sresp.error = "guest_has_no_phone"
             /\ out.queue = queue /\ out.outbox = outbox

\* A free-form send failed inside the window and left queue and outbox empty.
C17_Witness ==
  /\ sresp.status = 502
  /\ sresp.error = "send_failed"
  /\ sresp.in_window
  /\ sresp.at = now
  /\ Fresh(sresp.reg)
  /\ queue = <<>>
  /\ outbox = <<>>


\* Every row of a table carries the event of the registration it points to.
EventConsistent(tbl) ==
  \A k \in DOMAIN tbl : tbl[k].event = RegEvent[tbl[k].event_registration]

\* C20: after any sequence of track_send requests every mapping row's event
\* is the event of the registration it points to, also when event_id of the
\* request names another event than the one of event_registration_id and
\* when an upsert keyed by correlator overwrites a row.
C20_EventOfRegistration ==
  /\ EventConsistent(maps)
  /\ \A rq \in TrackRequests :
       LET out == TrackSendOutcome(rq, secret, maps, now)
       IN  /\ EventConsistent(out.maps)
           /\ (out.resp.status = 200 /\ rq.event_registration_id # Null) =>
                \E k \in DOMAIN out.maps :
                  /\ out.maps[k].id = out.resp.map_id
                  /\ out.maps[k].event_registration = rq.event_registration_id
                  /\ out.maps[k].event = RegEvent[rq.event_registration_id]

\* track_send has just moved a row to registration R3 of event E2: the row
\* is consumed although R3 never answered, so it was R1's row before.
C20_Witness ==
  /\ h.op = "track_send"
  /\ resp.status = 200
  /\ \E k \in DOMAIN maps :
       /\ maps[k].id = resp.map_id
       /\ maps[k].consumed_at # NoTime
       /\ maps[k].event_registration = "R3"
       /\ maps[k].event = "E2"
  /\ regs["R1"].rsvp_status # Unset
  /\ regs["R3"].rsvp_status = Unset

\* --------------------------------------------- claims on concurrent requests
AllDone == \A p \in Procs : pc[p] = "done"
Stored(p) == loc[p].kind = "track" /\ loc[p].status = 200
SameKey(p, q) ==
  /\ loc[p].template_wamid = loc[q].template_wamid
  /\ loc[p].template_wamid = Null =>
       loc[p].wa_id = loc[q].wa_id /\ RegEvent[loc[p].er] = RegEvent[loc[q].er]

\* C18: two track_send requests for the same upsert key that run
\* concurrently, in any interleaving of their lookup and write steps, leave
\* exactly one mapping row for that key.
C18_OneRowPerKey ==
  AllDone =>
    \A p, q \in Procs :
      (p # q /\ Stored(p) /\ Stored(q) /\ SameKey(p, q)) =>
        Cardinality(UpsertHits(maps, loc[p].wa_id, loc[p].er, loc[p].template_wamid)) = 1

\* The pair a request of RsvpLookup writes.
WrittenBy(p) == loc[p].kind = "rsvp" /\ loc[p].step > Len(SaveSteps)

\* C19: two RSVP webhooks for one registration that run concurrently, in any
\* interleaving, leave it with the (rsvp_status, responded_on) pair of one of
\* them, never the status of one with the timestamp of the other; a request
\* that fails before the write leaves both fields untouched.
C19_PairOfOneRequest ==
  /\ \A r \in RegIds :
       \/ regs[r] = [rsvp_status |-> Unset, responded_on |-> NoTime]
       \/ \E p \in Procs :
            /\ loc[p].kind = "rsvp" /\ loc[p].er = r /\ loc[p].step > 1
            /\ regs[r] = loc[p].pair
  /\ \A rq \in RaceRsvpRequests :
       LET out == RsvpOutcome(rq, OkEnv, secret, regs, maps, channel, now)
       IN  out.resp.status \in {400, 403} => out.regs = regs
  /\ \A p \in Procs :
       (loc[p].kind = "rsvp" /\ pc[p] = "done" /\ loc[p].status # 200) =>
         loc[p].step = 0

\* Both webhooks wrote registration R1 with different pairs; p1 saved last
\* and p2 published last.
C19_Witness ==
  /\ AllDone
  /\ WrittenBy("p1") /\ WrittenBy("p2")
  /\ loc["p1"].er = loc["p2"].er
  /\ loc["p1"].pair.rsvp_status # loc["p2"].pair.rsvp_status
  /\ loc["p1"].pair.responded_on # loc["p2"].pair.responded_on
  /\ regs[loc["p1"].er] = loc["p1"].pair
  /\ Len(channel) = 2
  /\ channel[2].rsvp_status = loc["p2"].pair.rsvp_status


\* ------------------------------------------------------ claims on re-use
\* The webhooks that identify the guest as rq does, with each reply and
\* each responded_on.
SameIdentity(rq) ==
  { [rq EXCEPT !.rsvp_status = st, !.responded_on = ro] :
      st \in {Yes, No}, ro \in RespondedOnInputs }

\* C21: consumption does not gate resolution.  When a webhook resolved
\* through a mapping and marked it consumed, a second webhook with the same
\* wa_id, correlator and event_id resolves through the same row to the same
\* registration, overwrites rsvp_status and responded_on, and publishes
\* another notification.
C21_ConsumedStillResolves ==
  \A rq \in RsvpRequests :
    LET first == RsvpOutcome(rq, OkEnv, secret, regs, maps, channel, now)
        via == first.h.via
    IN  (rq.event_registration_id = Null /\ first.resp.status = 200
           /\ first.maps[via].consumed_at # NoTime) =>
          \A rq2 \in SameIdentity(rq) :
            LET second == RsvpOutcome(rq2, OkEnv, secret, first.regs, first.maps,
                                      first.channel, now)
                rsvp == lower(strip(rq2.rsvp_status))
                er == first.h.er
            IN  rsvp \in ValidRsvp =>
                  /\ second.resp.status = 200
                  /\ second.h.via = via
                  /\ second.h.er = er
                  /\ second.regs[er].rsvp_status = rsvp
                  /\ second.regs[er].responded_on =
                       IF rq2.responded_on # NoTime THEN rq2.responded_on ELSE now
                  /\ \A r \in RegIds \ {er} : second.regs[r] = first.regs[r]
                  /\ Len(second.channel) = Len(first.channel) + 1
                  /\ second.channel[Len(second.channel)] = Notification(er, rsvp)

\* A webhook has just resolved through a row that was consumed earlier,
\* written the registration at the present time and published a second
\* notification for it.
C21_Witness ==
  /\ h.op = "whatsapp_rsvp"
  /\ resp.status = 200
  /\ h.prio > 0
  /\ maps[h.via].consumed_at # NoTime
  /\ maps[h.via].consumed_at < now
  /\ maps[h.via].event_registration = resp.id
  /\ regs[resp.id].responded_on = now
  /\ Len(channel) = 2
  /\ channel[1].id = resp.id /\ channel[2].id = resp.id
  /\ channel[2].rsvp_status = regs[resp.id].rsvp_status

====
